---- MODULE Spec2Model ----
(***************************************************************************)
(* django-rest-params: the @params decorator                               *)
(* (src/django_rest_params/__init__.py, Python 2.7).                       *)
(*                                                                         *)
(* params builds one ParamValidator per declared parameter                 *)
(* (decoration time); wrapped_request_fn validates a request against the   *)
(* validators and either returns a 400 Response or calls the handler.      *)
(***************************************************************************)
EXTENDS Integers, Sequences, FiniteSets, TLC

VARIABLES
    pc,          \* "start" | "ready" | "config_error" | "loop" | "done"
    validators,  \* the dict `validators`: param_key -> ParamValidator
    order,       \* the order in which validators.items() iterates
    cfg_error,   \* what params() raised, "" if nothing
    config,      \* the decorator's keyword arguments, as written
    request,     \* [method, GET, DATA] of the call being served
    idx,         \* position of the `for arg_name, validator` loop in order
    kwargs,      \* the kwargs built up for the handler: arg_name -> value
    outcome,     \* how the call ended (400 Response / handler / exception)
    log          \* what the call has done so far: lookups, checks, queries

vars == <<pc, validators, order, cfg_error, config, request, idx, kwargs, outcome, log>>

(***************************************************************************)
(* Python values.  Numbers are kept in halves (n = 2 * value) so that       *)
(* ints and the floats k/2 compare the way Python compares them.  Text is   *)
(* a sequence of one-character strings; NonAscii stands for a character     *)
(* outside ASCII (such as U+00E9), which only a unicode object can hold.    *)
(***************************************************************************)
\* Op(v), with v evaluated once
Let(v, Op(_)) == CHOOSE x \in {Op(r) : r \in {v}} : TRUE

Val(t, n, s, items) == [t |-> t, n |-> n, s |-> s, items |-> items]

None_ == Val("None", 0, <<>>, <<>>)

I(k) == Val("int", 2 * k, <<>>, <<>>)

F(h) == Val("float", h, <<>>, <<>>)

B(b) == Val("bool", IF b THEN 2 ELSE 0, <<>>, <<>>)

S(s) == Val("str", 0, s, <<>>)

U(s) == Val("unicode", 0, s, <<>>)

L(items) == Val("list", 0, <<>>, items)

T(items) == Val("tuple", 0, <<>>, items)

\* a type object or class: int, float, str, bool, dict, a Django model class
Ty(name) == Val("type", 0, <<name>>, <<>>)

\* a model instance with its id and its name
Obj(id, name) == Val("obj", 2 * id, name, <<>>)

NonAscii == "#"

IsNumber(v) == v.t \in {"int", "float", "bool"}

IsText(v) == v.t \in {"str", "unicode"}

\* Python truth value: `if param`, `not param`, `self.lt and ...`
Truthy(v) ==
    CASE v.t = "None" -> FALSE
      [] IsNumber(v) -> v.n # 0
      [] IsText(v) -> Len(v.s) > 0
      [] v.t \in {"list", "tuple"} -> Len(v.items) > 0
      [] OTHER -> TRUE

\* Python ==: numbers by value, text by characters, the rest by identity
PyEq(x, y) ==
    CASE IsNumber(x) /\ IsNumber(y) -> x.n = y.n
      [] IsText(x) /\ IsText(y) -> x.s = y.s
      [] OTHER -> x = y

\* x in collection
PyIn(x, coll) == \E i \in 1..Len(coll.items) : PyEq(coll.items[i], x)

DigitChars == <<"0", "1", "2", "3", "4", "5", "6", "7", "8", "9">>

IsDigit(c) == \E i \in 1..Len(DigitChars) : DigitChars[i] = c

DigitVal(c) == (CHOOSE i \in 1..Len(DigitChars) : DigitChars[i] = c) - 1

AllDigits(s) == Len(s) > 0 /\ \A i \in 1..Len(s) : IsDigit(s[i])

RECURSIVE DecimalValue(_)
DecimalValue(s) ==
    IF s = <<>> THEN 0
    ELSE 10 * DecimalValue(SubSeq(s, 1, Len(s) - 1)) + DigitVal(s[Len(s)])

RECURSIVE DecimalDigits(_)
DecimalDigits(k) ==
    IF k < 10 THEN <<DigitChars[k + 1]>>
    ELSE DecimalDigits(k \div 10) \o <<DigitChars[(k % 10) + 1]>>

IsAscii(s) == \A i \in 1..Len(s) : s[i] # NonAscii

\* position of the first "." of s, 0 if there is none
DotAt(s) ==
    IF \E i \in 1..Len(s) : s[i] = "."
    THEN CHOOSE i \in 1..Len(s) : s[i] = "." /\ \A j \in 1..(i - 1) : s[j] # "."
    ELSE 0


RECURSIVE SplitOn(_, _)
\* s.split(sep): the pieces of s between the separators, in order
SplitOn(s, sep) ==
    IF \E i \in 1..Len(s) : s[i] = sep
    THEN LET i == CHOOSE k \in 1..Len(s) :
                      s[k] = sep /\ \A j \in 1..(k - 1) : s[j] # sep
         IN <<SubSeq(s, 1, i - 1)>> \o SplitOn(SubSeq(s, i + 1, Len(s)), sep)
    ELSE <<s>>

(***************************************************************************)
(* Exceptions.  An exception carries its message; uni says that the        *)
(* message is a unicode object holding a non-ASCII character, which is     *)
(* what '...%s...' % param yields when param is such a unicode object.     *)
(***************************************************************************)
Msg(prefix, text, arg) == [prefix |-> prefix, text |-> text, arg |-> arg]

NoMsg == Msg("", "", None_)

Ok(v) == [ok |-> TRUE, val |-> v, msg |-> NoMsg, uni |-> FALSE]

Raise(text, arg, uni) ==
    [ok |-> FALSE, val |-> None_, msg |-> Msg("", text, arg), uni |-> uni]

IsNonAsciiUnicode(v) == v.t = "unicode" /\ ~IsAscii(v.s)

\* int(param).  Text pools hold no sign and no blank, so text is an integer
\* literal exactly when it is a non-empty run of digits.
PyInt(v) ==
    CASE v.t \in {"int", "bool"} -> Ok(Val("int", 2 * (v.n \div 2), <<>>, <<>>))
      [] v.t = "float" ->
            Ok(Val("int", IF v.n >= 0 THEN 2 * (v.n \div 2)
                                      ELSE 0 - 2 * ((0 - v.n) \div 2), <<>>, <<>>))
      [] IsText(v) ->
            IF AllDigits(v.s) THEN Ok(I(DecimalValue(v.s)))
            ELSE Raise("invalid literal for int()", None_, FALSE)
      [] OTHER -> Raise("int() argument must be a string or a number", None_, FALSE)

\* the digits before and after the "." of a float literal
FloatIntPart(s) == IF DotAt(s) = 0 THEN s ELSE SubSeq(s, 1, DotAt(s) - 1)

FloatFracPart(s) == IF DotAt(s) = 0 THEN <<>> ELSE SubSeq(s, DotAt(s) + 1, Len(s))

\* Text is a float literal here when it is digits, optionally followed by "."
\* and a fraction; the fractions that occur are those str() writes for k/2.
IsFloatLiteral(s) ==
    /\ Len(FloatIntPart(s)) + Len(FloatFracPart(s)) > 0
    /\ FloatIntPart(s) = <<>> \/ AllDigits(FloatIntPart(s))
    /\ FloatFracPart(s) \in {<<>>, <<"0">>, <<"5">>}

\* float(param)
PyFloat(v) ==
    CASE IsNumber(v) -> Ok(F(v.n))
      [] IsText(v) ->
            IF IsFloatLiteral(v.s)
            THEN Ok(F(2 * DecimalValue(FloatIntPart(v.s))
                      + (IF FloatFracPart(v.s) = <<"5">> THEN 1 ELSE 0)))
            ELSE Raise("could not convert string to float", None_, FALSE)
      [] OTHER -> Raise("float() argument must be a string or a number", None_, FALSE)

\* the characters str() writes for a number kept in halves
NumberChars(v) ==
    LET a == IF v.n >= 0 THEN v.n ELSE 0 - v.n
        sign == IF v.n >= 0 THEN <<>> ELSE <<"-">>
    IN CASE v.t = "int" -> sign \o DecimalDigits(a \div 2)
         [] v.t = "bool" -> IF v.n # 0 THEN <<"T", "r", "u", "e">>
                                       ELSE <<"F", "a", "l", "s", "e">>
         [] OTHER -> sign \o DecimalDigits(a \div 2)
                          \o <<".", IF a % 2 = 1 THEN "5" ELSE "0">>

\* str(param), as line 210 applies it to a value found in request.GET
PyStr(v) ==
    CASE IsNumber(v) -> Ok(S(NumberChars(v)))
      [] v.t = "str" -> Ok(v)
      [] v.t = "unicode" ->
            IF IsAscii(v.s) THEN Ok(S(v.s))
            ELSE Raise("'ascii' codec can't encode character", None_, FALSE)
      [] v.t = "None" -> Ok(S(<<"N", "o", "n", "e">>))
      [] OTHER -> Ok(S(<<"<", v.t, ">">>))

\* unicode(param) of a str or unicode object
PyUnicode(v) == U(v.s)

(***************************************************************************)
(* The model store: the manager's get(field=value) of a model class.       *)
(***************************************************************************)
Objects == {Obj(1, <<"a">>)}

\* objects.get(**{field: param}): the matching instance, or an exception
ManagerGet(field, param) ==
    IF field = "id"
    THEN Let(PyInt(param), LAMBDA id :
             IF ~id.ok THEN id
             ELSE IF \E o \in Objects : o.n = id.val.n
                  THEN Ok(CHOOSE o \in Objects : o.n = id.val.n)
                  ELSE Raise("matching query does not exist", None_, FALSE))
    ELSE IF \E o \in Objects : IsText(param) /\ o.s = param.s
         THEN Ok(CHOOSE o \in Objects : o.s = param.s)
         ELSE Raise("matching query does not exist", None_, FALSE)

(***************************************************************************)
(* ParamValidator                                                          *)
(***************************************************************************)
TUPLE_TYPES == {"tuple", "set", "frozenset", "list"}

VALID_TYPES == {Ty("int"), Ty("float"), Ty("str")}

\* hasattr(v, '_default_manager'): v is a Django model class
HasDefaultManager(v) == v = Ty("model")

\* ParamValidator(arg_name): the class attributes, and param_name
ParamValidator(arg_name) ==
    [param_name |-> S(<<arg_name>>),
     param_type |-> None_,
     allow_GET |-> FALSE, allow_POST |-> FALSE,
     gt |-> None_, gte |-> None_, lt |-> None_, lte |-> None_, eq |-> None_,
     optional |-> FALSE, default |-> None_,
     many |-> FALSE,
     deferred |-> TRUE, field |-> S(<<"id">>)]

\* one query of the model store: the field looked up, and whether only('id')
Query(self, param) ==
    [field |-> self.field, deferred |-> self.deferred, value |-> param]

WithQuery(r, qs) == [ok |-> r.ok, val |-> r.val, msg |-> r.msg, uni |-> r.uni,
                     queries |-> qs]

\* check_type as it would be if line 62 asserted isinstance(param, str)
check_type_StrOnly(self, param) ==
    IF self.param_type.t \in TUPLE_TYPES
    THEN IF self.param_type.t \in {"set", "frozenset"} /\ param.t = "list"
         THEN WithQuery(Raise("unhashable type: 'list'", None_, FALSE), <<>>)
         ELSE IF ~PyIn(param, self.param_type)
              THEN WithQuery(Raise("invalid option: Must be one of", param,
                                   IsNonAsciiUnicode(param)), <<>>)
              ELSE WithQuery(Ok(param), <<>>)
    ELSE CASE self.param_type = Ty("int") -> WithQuery(PyInt(param), <<>>)
           [] self.param_type = Ty("float") -> WithQuery(PyFloat(param), <<>>)
           [] self.param_type = Ty("str") ->
                 IF param.t = "str" THEN WithQuery(Ok(PyUnicode(param)), <<>>)
                 ELSE WithQuery(Raise("", None_, FALSE), <<>>)
           [] self.param_type = Ty("bool") ->
                 WithQuery(Ok(B(Truthy(param))), <<>>)
           [] HasDefaultManager(self.param_type) ->
                 WithQuery(ManagerGet(self.field.s[1], param),
                           <<Query(self, param)>>)
           [] OTHER ->
                 WithQuery(Raise("object has no attribute '____name__'",
                                 None_, FALSE), <<>>)

\* ParamValidator.check_type: the coerced param, or the exception raised,
\* with the model-store queries issued on the way
check_type(self, param) ==
    IF self.param_type.t \in TUPLE_TYPES
    THEN IF self.param_type.t \in {"set", "frozenset"} /\ param.t = "list"
         THEN WithQuery(Raise("unhashable type: 'list'", None_, FALSE), <<>>)
         ELSE IF ~PyIn(param, self.param_type)
              THEN WithQuery(Raise("invalid option: Must be one of", param,
                                   IsNonAsciiUnicode(param)), <<>>)
              ELSE WithQuery(Ok(param), <<>>)
    ELSE CASE self.param_type = Ty("int") -> WithQuery(PyInt(param), <<>>)
           [] self.param_type = Ty("float") -> WithQuery(PyFloat(param), <<>>)
           [] self.param_type = Ty("str") ->
                 IF IsText(param) THEN WithQuery(Ok(PyUnicode(param)), <<>>)
                 ELSE WithQuery(Raise("", None_, FALSE), <<>>)
           [] self.param_type = Ty("bool") ->
                 WithQuery(Ok(B(Truthy(param))), <<>>)
           [] HasDefaultManager(self.param_type) ->
                 WithQuery(ManagerGet(self.field.s[1], param),
                           <<Query(self, param)>>)
           [] OTHER ->
                 WithQuery(Raise("object has no attribute '____name__'",
                                 None_, FALSE), <<>>)

\* len(param)
PyLen(v) == I(IF IsText(v) THEN Len(v.s) ELSE Len(v.items))

\* the bounds check_value reads, in the order it reads them after eq
BoundOrder == <<"lt", "lte", "gt", "gte">>

BoundOf(self, b) ==
    CASE b = "eq" -> self.eq
      [] b = "lt" -> self.lt
      [] b = "lte" -> self.lte
      [] b = "gt" -> self.gt
      [] OTHER -> self.gte

\* the comparison that makes bound b raise
Violates(val, b, bound) ==
    CASE b = "eq" -> val.n # bound.n
      [] b = "lt" -> val.n >= bound.n
      [] b = "lte" -> val.n > bound.n
      [] b = "gt" -> val.n <= bound.n
      [] OTHER -> val.n < bound.n

BoundText(b) ==
    CASE b \in {"eq", "lt"} -> "must be less than"
      [] b = "lte" -> "must be less than or equal to"
      [] b = "gt" -> "must be greater than"
      [] OTHER -> "must be greater than or equal to"

\* the value check_value compares: the number, the length of text, or None
CheckedVal(self, param) ==
    IF self.param_type = Ty("int") \/ self.param_type = Ty("float") THEN param
    ELSE IF self.param_type = Ty("str") THEN PyLen(param)
    ELSE None_

RECURSIVE CheckBounds(_, _, _, _)
\* lines 89-96: the bounds after eq, from position i, each read only when set
\* and truthy; cmps collects the comparisons made
CheckBounds(self, val, i, cmps) ==
    IF i > Len(BoundOrder) THEN [ok |-> TRUE, failed |-> "", cmps |-> cmps]
    ELSE LET b == BoundOrder[i]
         IN IF ~Truthy(BoundOf(self, b))
            THEN CheckBounds(self, val, i + 1, cmps)
            ELSE IF Violates(val, b, BoundOf(self, b))
                 THEN [ok |-> FALSE, failed |-> b, cmps |-> Append(cmps, b)]
                 ELSE CheckBounds(self, val, i + 1, Append(cmps, b))

\* check_value as it would be if a declared eq were the only bound read
check_value_EqOnly(self, param) ==
    LET val == CheckedVal(self, param)
        prefix == IF self.param_type = Ty("str") THEN "Length " ELSE "Value "
        r == IF Truthy(self.eq)
             THEN [ok |-> ~Violates(val, "eq", self.eq), failed |-> "eq",
                   cmps |-> <<"eq">>]
             ELSE CheckBounds(self, val, 1, <<>>)
    IN IF ~Truthy(val) THEN [ok |-> TRUE, msg |-> NoMsg, cmps |-> <<>>]
       ELSE IF r.ok THEN [ok |-> TRUE, msg |-> NoMsg, cmps |-> r.cmps]
       ELSE [ok |-> FALSE,
             msg |-> Msg(prefix, BoundText(r.failed), BoundOf(self, r.failed)),
             cmps |-> r.cmps]

\* ParamValidator.check_value: passes, or raises "Length ..."/"Value ...";
\* cmps are the bounds it compared the value with
check_value(self, param) ==
    LET val == CheckedVal(self, param)
        prefix == IF self.param_type = Ty("str") THEN "Length " ELSE "Value "
        r == IF Truthy(self.eq) /\ Violates(val, "eq", self.eq)
             THEN [ok |-> FALSE, failed |-> "eq", cmps |-> <<"eq">>]
             ELSE CheckBounds(self, val, 1,
                              IF Truthy(self.eq) THEN <<"eq">> ELSE <<>>)
    IN IF ~Truthy(val) THEN [ok |-> TRUE, msg |-> NoMsg, cmps |-> <<>>]
       ELSE IF r.ok THEN [ok |-> TRUE, msg |-> NoMsg, cmps |-> r.cmps]
       ELSE [ok |-> FALSE,
             msg |-> Msg(prefix, BoundText(r.failed), BoundOf(self, r.failed)),
             cmps |-> r.cmps]

(***************************************************************************)
(* params: the loop over kwargs.items() that builds `validators`.          *)
(* A configuration entry is a keyword (its parts between "__") and its     *)
(* value.                                                                  *)
(***************************************************************************)
Entry(parts, v) == [parts |-> parts, v |-> v]

BOOL_PARTS == {"deferred", "optional", "many"}

NUM_PARTS == {"gt", "gte", "lt", "lte", "eq"}

Built(vs) == [validators |-> vs, err |-> ""]

Failed(vs, why) == [validators |-> vs, err |-> why]

RECURSIVE SetMethods(_, _, _)
\* lines 124-130: for method in v, from item i
SetMethods(obj, v, i) ==
    IF i > Len(v.items) THEN [obj |-> obj, err |-> ""]
    ELSE IF PyEq(v.items[i], S(<<"GET">>))
         THEN SetMethods([obj EXCEPT !.allow_GET = TRUE], v, i + 1)
    ELSE IF PyEq(v.items[i], S(<<"POST">>))
         THEN SetMethods([obj EXCEPT !.allow_POST = TRUE], v, i + 1)
    ELSE [obj |-> obj, err |-> "Invalid value for __method"]

\* one pass of the loop of lines 104-166, for the entry k = v
ProcessEntry(vs0, e) ==
    LET param_key == e.parts[1]
        vs == IF param_key \in DOMAIN vs0 THEN vs0
              ELSE vs0 @@ (param_key :> ParamValidator(param_key))
        obj == vs[param_key]
        v == e.v
        last_part == e.parts[Len(e.parts)]
        Put(o) == Built([vs EXCEPT ![param_key] = o])
    IN IF Len(e.parts) = 1
       THEN IF ~HasDefaultManager(v) /\ v.t \notin TUPLE_TYPES /\ v \notin VALID_TYPES
            THEN Failed(vs, "Invalid type")
            ELSE Put([obj EXCEPT !.param_type = v])
       ELSE CASE last_part = "method" ->
                   IF v.t \in TUPLE_TYPES
                   THEN LET r == SetMethods(obj, v, 1)
                        IN IF r.err # "" THEN Failed(vs, r.err) ELSE Put(r.obj)
                   ELSE IF PyEq(v, S(<<"GET">>)) THEN Put([obj EXCEPT !.allow_GET = TRUE])
                   ELSE IF PyEq(v, S(<<"POST">>)) THEN Put([obj EXCEPT !.allow_POST = TRUE])
                   ELSE Failed(vs, "Invalid value for __method")
              [] last_part = "name" -> Put([obj EXCEPT !.param_name = v])
              [] last_part \in BOOL_PARTS ->
                   IF v.t # "bool" THEN Failed(vs, "AssertionError")
                   ELSE Put([obj EXCEPT ![last_part] = (v.n # 0)])
              [] last_part \in NUM_PARTS ->
                   IF ~IsNumber(v) THEN Failed(vs, "AssertionError")
                   ELSE Put([obj EXCEPT ![last_part] = v])
              [] last_part = "default" ->
                   Put([obj EXCEPT !.optional = TRUE, !.default = v])
              [] last_part = "field" -> Put([obj EXCEPT !.field = v])
              [] OTHER -> Failed(vs, "Invalid option")

RECURSIVE ProcessEntries(_, _, _)
\* the whole loop, over the entries in the order kwargs.items() yields them;
\* an exception ends it
ProcessEntries(vs, items, i) ==
    IF i > Len(items) THEN Built(vs)
    ELSE Let(ProcessEntry(vs, items[i]),
             LAMBDA r : IF r.err # "" THEN r
                        ELSE ProcessEntries(r.validators, items, i + 1))

\* the entries of kw in the order p (a permutation of its positions)
Reordered(kw, p) == [i \in 1..Len(kw) |-> kw[p[i]]]

\* params(**kw), with kw.items() iterating in the order p
params(kw, p) == ProcessEntries(<<>>, Reordered(kw, p), 1)

\* the orders a dict with these keys may iterate in
DictOrders(keys) ==
    {s \in [1..Cardinality(keys) -> keys] : \A k \in keys : \E i \in DOMAIN s : s[i] = k}

(***************************************************************************)
(* wrapped_request_fn: one pass of the loop over validators.items()        *)
(***************************************************************************)
Event(ev, arg, what) == [ev |-> ev, arg |-> arg, what |-> what]

\* a dict's get(key, None)
DictGet(d, key) == IF key \in DOMAIN d THEN d[key] ELSE None_

\* line 179 as it would be without its PUT case
DefaultParamMethod_PostOnly(request_method) ==
    IF request_method = "POST" THEN "POST" ELSE "GET"

\* line 179
DefaultParamMethod(request_method) ==
    IF request_method = "POST" \/ request_method = "PUT" THEN "POST" ELSE "GET"

\* lines 185-187: whether the parameter may come from request.GET / request.DATA
AllowGET(validator, request_method) ==
    IF ~validator.allow_GET /\ ~validator.allow_POST
    THEN DefaultParamMethod(request_method) = "GET"
    ELSE validator.allow_GET

AllowPOST(validator, request_method) ==
    IF ~validator.allow_GET /\ ~validator.allow_POST
    THEN DefaultParamMethod(request_method) = "POST"
    ELSE validator.allow_POST

\* lines 190-196: the param found, the mapping it was last looked up in
\* (param_type), and the mappings read
FindParam(validator, req) ==
    LET allow_GET == AllowGET(validator, req.method)
        allow_POST == AllowPOST(validator, req.method)
        posted == IF allow_POST THEN DictGet(req.DATA, validator.param_name) ELSE None_
        useGET == ~Truthy(posted) /\ allow_GET
    IN [param |-> IF useGET THEN DictGet(req.GET, validator.param_name) ELSE posted,
        param_type |-> IF useGET THEN "GET" ELSE "POST",
        read |-> (IF allow_POST THEN <<"POST">> ELSE <<>>)
                 \o (IF useGET THEN <<"GET">> ELSE <<>>)]

RECURSIVE CheckTypes(_, _, _, _, _)
\* line 213: [validator.check_type(p) for p in params], stopping at the
\* first exception; acc are the coerced values, qs the queries issued
CheckTypes(validator, ps, i, acc, qs) ==
    IF i > Len(ps) THEN [ok |-> TRUE, vals |-> acc, queries |-> qs,
                         msg |-> NoMsg, uni |-> FALSE, calls |-> Len(ps)]
    ELSE Let(check_type(validator, ps[i]),
             LAMBDA r :
                IF r.ok
                THEN CheckTypes(validator, ps, i + 1, Append(acc, r.val),
                                qs \o r.queries)
                ELSE [ok |-> FALSE, vals |-> acc, queries |-> qs \o r.queries,
                      msg |-> r.msg, uni |-> r.uni, calls |-> i])

RECURSIVE CheckValues(_, _, _, _)
\* line 214: [validator.check_value(p) for p in params], likewise
CheckValues(validator, ps, i, cmps) ==
    IF i > Len(ps) THEN [ok |-> TRUE, msg |-> NoMsg, cmps |-> cmps, calls |-> Len(ps)]
    ELSE Let(check_value(validator, ps[i]),
             LAMBDA r :
                IF r.ok THEN CheckValues(validator, ps, i + 1, cmps \o r.cmps)
                ELSE [ok |-> FALSE, msg |-> r.msg, cmps |-> cmps \o r.cmps,
                      calls |-> i])

\* lines 209-212: the raw elements of a many param, or the exception of str()
ManyParams(found) ==
    IF found.param_type = "GET"
    THEN LET s == PyStr(found.param)
         IN IF ~s.ok THEN [ok |-> FALSE, ps |-> <<>>, msg |-> s.msg]
            ELSE Let(SplitOn(s.val.s, ","), LAMBDA tokens :
                     [ok |-> TRUE, msg |-> NoMsg,
                      ps |-> [i \in 1..Len(tokens) |-> S(tokens[i])]])
    ELSE [ok |-> TRUE, msg |-> NoMsg,
          ps |-> IF found.param.t = "list" THEN found.param.items
                 ELSE <<found.param>>]

Step(kind, value, msg, uni, events) ==
    [kind |-> kind, value |-> value, msg |-> msg, uni |-> uni, events |-> events]

EventsOf(arg, ev, seq) == [i \in 1..Len(seq) |-> Event(ev, arg, seq[i])]

Repeat(n, e) == [i \in 1..n |-> e]

\* lines 207-222: the param was found; check its type, then its value
Checked(arg_name, validator, found, lookups, ps) ==
    Let(CheckTypes(validator, ps, 1, <<>>, <<>>), LAMBDA ct :
        LET ctEvents == Repeat(ct.calls, Event("check_type", arg_name, ""))
                        \o Repeat(Len(ct.queries), Event("query", arg_name, ""))
        IN IF ~ct.ok
           THEN Step("except", None_, ct.msg, ct.uni, lookups \o ctEvents)
           ELSE Let(CheckValues(validator, ct.vals, 1, <<>>), LAMBDA cv :
                LET cvEvents == Repeat(cv.calls, Event("check_value", arg_name, ""))
                                \o EventsOf(arg_name, "compare", cv.cmps)
                IN IF ~cv.ok
                   THEN Step("except", None_, cv.msg, FALSE,
                             lookups \o ctEvents \o cvEvents)
                   ELSE Step("bound",
                             IF validator.many THEN L(ct.vals) ELSE ct.vals[1],
                             NoMsg, FALSE, lookups \o ctEvents \o cvEvents)))

\* lines 198-205 as they would be with `if param is None` for `if not param`
Validated_NoneOnly(arg_name, validator, found) ==
    LET lookups == EventsOf(arg_name, "lookup", found.read)
    IN IF found.param = None_
       THEN IF ~validator.optional
            THEN Step("except", None_, Msg("", "Param is missing", None_), FALSE,
                      lookups)
            ELSE Step("bound", validator.default, NoMsg, FALSE, lookups)
       ELSE IF validator.many
            THEN Let(ManyParams(found), LAMBDA many :
                     IF ~many.ok
                     THEN Step("except", None_, many.msg, FALSE, lookups)
                     ELSE Checked(arg_name, validator, found, lookups, many.ps))
            ELSE Checked(arg_name, validator, found, lookups, <<found.param>>)

\* lines 198-205, then the checks: what became of the param found
Validated(arg_name, validator, found) ==
    LET lookups == EventsOf(arg_name, "lookup", found.read)
    IN IF ~Truthy(found.param)
       THEN IF ~validator.optional
            THEN Step("except", None_, Msg("", "Param is missing", None_), FALSE,
                      lookups)
            ELSE Step("bound", validator.default, NoMsg, FALSE, lookups)
       ELSE IF validator.many
            THEN Let(ManyParams(found), LAMBDA many :
                     IF ~many.ok
                     THEN Step("except", None_, many.msg, FALSE, lookups)
                     ELSE Checked(arg_name, validator, found, lookups, many.ps))
            ELSE Checked(arg_name, validator, found, lookups, <<found.param>>)

\* lines 182-222 for one (arg_name, validator): what the pass ends in
\*   "bound"   kwargs[arg_name] = value, the loop goes on
\*   "except"  an exception reached line 219, with message msg
ValidateParam(arg_name, validator, req) ==
    Let(FindParam(validator, req),
        LAMBDA found : Validated(arg_name, validator, found))

\* how a call ends; "" while it runs
Outcome(kind, name, msg, kw) == [kind |-> kind, name |-> name, msg |-> msg, kwargs |-> kw]

NoOutcome == Outcome("", None_, NoMsg, <<>>)

NoRequest == [method |-> "", GET |-> <<>>, DATA |-> <<>>]

(***************************************************************************)
(* Actions                                                                 *)
(***************************************************************************)
callVars == <<request, idx, kwargs, outcome, log>>

\* @params(**config): the validators are built, or params raises
Decorate(Configs) ==
    /\ pc = "start"
    /\ \E c \in Configs : \E p \in Permutations(1..Len(c)) :
          \E r \in {params(c, p)} :
             /\ config' = c
             /\ IF r.err # ""
                THEN /\ pc' = "config_error"
                     /\ cfg_error' = r.err
                     /\ validators' = <<>>
                     /\ order' = <<>>
                ELSE /\ pc' = "ready"
                     /\ cfg_error' = ""
                     /\ validators' = r.validators
                     /\ order' \in DictOrders(DOMAIN r.validators)
    /\ UNCHANGED callVars

\* the decorated handler is called with a request (lines 171-179)
Call(Requests) ==
    /\ pc = "ready"
    /\ \E req \in Requests :
          /\ request' = req
          /\ idx' = 1
          /\ kwargs' = <<>>
          /\ outcome' = NoOutcome
          /\ log' = <<>>
    /\ pc' = "loop"
    /\ UNCHANGED <<validators, order, cfg_error, config>>

\* the loop of line 181 as it would be if line 220 kept the Response for
\* later and the loop went on to the next parameter
Iterate_KeepGoing ==
    /\ pc = "loop"
    /\ idx <= Len(order)
    /\ \E step \in {ValidateParam(order[idx], validators[order[idx]], request)} :
          /\ log' = log \o step.events
          /\ idx' = idx + 1
          /\ pc' = "loop"
          /\ IF step.kind = "bound"
             THEN /\ kwargs' = kwargs @@ (order[idx] :> step.value)
                  /\ outcome' = outcome
             ELSE /\ kwargs' = kwargs
                  /\ outcome' = Outcome(IF step.uni THEN "raised" ELSE "400",
                                        validators[order[idx]].param_name,
                                        step.msg, <<>>)
    /\ UNCHANGED <<validators, order, cfg_error, config, request>>

\* the loop of line 181 as it would be if the validator kept the last value
\* it accepted as its default
Iterate_RemembersValue ==
    /\ pc = "loop"
    /\ idx <= Len(order)
    /\ \E step \in {ValidateParam(order[idx], validators[order[idx]], request)} :
          /\ log' = log \o step.events
          /\ IF step.kind = "bound"
             THEN /\ kwargs' = kwargs @@ (order[idx] :> step.value)
                  /\ idx' = idx + 1
                  /\ pc' = "loop"
                  /\ outcome' = outcome
                  /\ validators' = [validators EXCEPT ![order[idx]].default = step.value]
             ELSE /\ kwargs' = kwargs
                  /\ idx' = idx
                  /\ pc' = "done"
                  /\ outcome' = Outcome(IF step.uni THEN "raised" ELSE "400",
                                        validators[order[idx]].param_name,
                                        step.msg, <<>>)
                  /\ validators' = validators
    /\ UNCHANGED <<order, cfg_error, config, request>>

\* one pass of the loop of line 181: the parameter is bound, or line 220
\* returns the 400 Response, or str(e) raises there and the call ends with
\* that exception
Iterate ==
    /\ pc = "loop"
    /\ idx <= Len(order)
    /\ \E step \in {ValidateParam(order[idx], validators[order[idx]], request)} :
       LET arg_name == order[idx]
           validator == validators[arg_name]
       IN /\ log' = log \o step.events
          /\ IF step.kind = "bound"
             THEN /\ kwargs' = kwargs @@ (arg_name :> step.value)
                  /\ idx' = idx + 1
                  /\ pc' = "loop"
                  /\ outcome' = outcome
             ELSE /\ kwargs' = kwargs
                  /\ idx' = idx
                  /\ pc' = "done"
                  /\ outcome' = Outcome(IF step.uni THEN "raised" ELSE "400",
                                        validator.param_name, step.msg, <<>>)
    /\ UNCHANGED <<validators, order, cfg_error, config, request>>

\* line 224: every parameter is bound, the handler is called
Invoke ==
    /\ pc = "loop"
    /\ idx > Len(order)
    /\ pc' = "done"
    /\ outcome' = Outcome("handler", None_, NoMsg, kwargs)
    /\ UNCHANGED <<validators, order, cfg_error, config, request, idx, kwargs, log>>

\* the call has returned; the decorated handler can be called again
Return ==
    /\ pc = "done"
    /\ pc' = "ready"
    /\ request' = NoRequest
    /\ idx' = 0
    /\ kwargs' = <<>>
    /\ outcome' = NoOutcome
    /\ log' = <<>>
    /\ UNCHANGED <<validators, order, cfg_error, config>>

Init ==
    /\ pc = "start"
    /\ validators = <<>>
    /\ order = <<>>
    /\ cfg_error = ""
    /\ config = <<>>
    /\ request = NoRequest
    /\ idx = 0
    /\ kwargs = <<>>
    /\ outcome = NoOutcome
    /\ log = <<>>

(***************************************************************************)
(* Inputs: the configurations the decorator is given and the requests it   *)
(* serves                                                                  *)
(***************************************************************************)
MaxNum == 2

MaxKeys == 3

Nums == {I(k) : k \in 0..MaxNum}

Colors == T(<<S(<<"a">>), S(<<"1">>)>>)

TypeDecls == {Ty("int"), Ty("float"), Ty("str"), Ty("model"), Colors}

\* the keyword k__part = v, and the type declaration k = v
Mod(k, part, v) == Entry(<<k, part>>, v)

Decl(k, v) == Entry(<<k>>, v)

GeneralMods(k) ==
    {Mod(k, "optional", B(TRUE)), Mod(k, "optional", B(FALSE)),
     Mod(k, "default", I(1)), Mod(k, "many", B(TRUE)),
     Mod(k, "method", S(<<"GET">>)), Mod(k, "method", S(<<"POST">>)),
     Mod(k, "method", T(<<S(<<"GET">>), S(<<"POST">>)>>)),
     Mod(k, "name", S(<<"x">>)), Mod(k, "gt", I(1)),
     Mod(k, "deferred", B(FALSE)), Mod(k, "field", S(<<"name">>))}

\* a set as a sequence, in some fixed order
RECURSIVE SeqOf(_)
SeqOf(set) ==
    IF set = {} THEN <<>>
    ELSE LET x == CHOOSE y \in set : TRUE IN <<x>> \o SeqOf(set \ {x})

\* the configurations written as the declarations ds followed by modifiers,
\* MaxKeys keywords at most
Written(ds, mods) ==
    {ds \o SeqOf(ms) :
        ms \in {m \in SUBSET mods :
                  /\ Len(ds) + Cardinality(m) <= MaxKeys
                  /\ \A x, y \in m : x.parts = y.parts => x = y}}

\* one parameter a of any type; or a and an integer b that may be optional
Configs ==
    UNION {Written(<<Decl("a", ty)>>, GeneralMods("a")) : ty \in TypeDecls}
    \cup UNION {Written(<<Decl("a", ty), Decl("b", Ty("int"))>>,
                        GeneralMods("a") \cup {Mod("b", "optional", B(TRUE))}) :
                ty \in TypeDecls}

Methods == {"GET", "POST", "PUT", "DELETE"}

KeyA == S(<<"a">>)

KeyB == S(<<"b">>)

KeyX == S(<<"x">>)

RawValues ==
    {None_, I(0), I(1), S(<<"0">>), S(<<"1">>), S(<<"a">>), U(<<"a">>),
     U(<<NonAscii>>), S(<<"1", ",", "0">>), F(3)}

PostedValues == {None_, I(0), I(1), U(<<"a">>), L(<<I(1), S(<<"a">>)>>), S(<<>>)}

\* what request.GET and request.DATA may hold under a key
GetPool(key) ==
    IF key = KeyA THEN RawValues
    ELSE IF key = KeyB THEN {None_, S(<<"1">>), S(<<"a">>)}
    ELSE {None_, I(1)}

PostPool(key) ==
    IF key = KeyA THEN PostedValues
    ELSE IF key = KeyB THEN {None_}
    ELSE {None_, I(1)}

\* the keys the validators are declared under or look up; no other key of a
\* request is ever read
RequestKeys(vs) ==
    {S(<<k>>) : k \in DOMAIN vs} \cup {vs[k].param_name : k \in DOMAIN vs}

\* the values a request may hold under key, None when nothing reads the key
Held(vs, key, pool) == IF key \in RequestKeys(vs) THEN pool ELSE {None_}

Requests(vs) ==
    {[method |-> m,
      GET |-> (KeyA :> ga) @@ (KeyB :> gb) @@ (KeyX :> gx),
      DATA |-> (KeyA :> da) @@ (KeyB :> db) @@ (KeyX :> dx)] :
        m \in Methods,
        ga \in Held(vs, KeyA, GetPool(KeyA)), gb \in Held(vs, KeyB, GetPool(KeyB)),
        gx \in Held(vs, KeyX, GetPool(KeyX)),
        da \in Held(vs, KeyA, PostPool(KeyA)), db \in Held(vs, KeyB, PostPool(KeyB)),
        dx \in Held(vs, KeyX, PostPool(KeyX))}

Next == Decorate(Configs) \/ Call(Requests(validators)) \/ Iterate \/ Invoke \/ Return

Spec == Init /\ [][Next]_vars

(***************************************************************************)
(* Bounds: one parameter a, a number or text, with bounds on it            *)
(***************************************************************************)
BoundMods(k) ==
    {Mod(k, b, v) : b \in NUM_PARTS, v \in Nums} \cup {Mod(k, "many", B(TRUE))}

BoundConfigs ==
    UNION {Written(<<Decl("a", ty)>>, BoundMods("a")) :
              ty \in {Ty("int"), Ty("float"), Ty("str")}}

\* n times the character c
Chars(n, c) == [i \in 1..n |-> c]

BoundValues ==
    {S(DecimalDigits(k)) : k \in 0..(MaxNum + 1)}
    \cup {S(Chars(n, "a")) : n \in 1..(MaxNum + 1)}
    \cup {F(1), S(<<"1", ",", "0">>), S(<<"a", ",", ",", "a", "a">>)}

BoundRequests(vs) ==
    {[method |-> m, GET |-> (KeyA :> g), DATA |-> (KeyA :> d)] :
        m \in {"GET", "POST"}, g \in BoundValues,
        d \in {None_, L(<<I(0), I(MaxNum)>>)}}

NextBounds ==
    Decorate(BoundConfigs) \/ Call(BoundRequests(validators)) \/ Iterate \/ Invoke \/ Return

SpecBounds == Init /\ [][NextBounds]_vars

(***************************************************************************)
(* Decoration: what params makes of a configuration, valid or not          *)
(***************************************************************************)
AnyDecls ==
    TypeDecls \cup {Ty("bool"), Ty("dict"), I(1), None_, S(<<"int">>),
                    Val("list", 0, <<>>, <<I(1)>>), Val("set", 0, <<>>, <<I(1)>>),
                    Val("frozenset", 0, <<>>, <<I(1)>>)}

AnyMods(k) ==
    GeneralMods(k)
    \cup {Mod(k, "method", S(<<"PUT">>)), Mod(k, "method", T(<<S(<<"GET">>), S(<<"PUT">>)>>)),
          Mod(k, "optional", I(1)), Mod(k, "many", B(FALSE)), Mod(k, "gt", S(<<"1">>)),
          Mod(k, "lte", F(3)), Mod(k, "eq", B(TRUE)), Mod(k, "default", None_),
          Mod(k, "bogus", I(1)), Entry(<<k, "length", "eq">>, I(MaxNum))}

AnyConfigs ==
    UNION {Written(<<Decl("a", ty)>>, AnyMods("a")) : ty \in AnyDecls}
    \cup Written(<<>>, AnyMods("a"))
    \cup UNION {Written(<<Decl("a", Ty("int")), Decl("b", ty)>>, AnyMods("b")) :
                   ty \in AnyDecls}

NextConfig == Decorate(AnyConfigs)

SpecConfig == Init /\ [][NextConfig]_vars

(***************************************************************************)
(* Kinds: one parameter a, with or without a type declaration, and the     *)
(* requests it serves                                                      *)
(***************************************************************************)
KindMods(k) ==
    {Mod(k, "optional", B(TRUE)), Mod(k, "default", I(1)), Mod(k, "many", B(TRUE)),
     Mod(k, "method", S(<<"GET">>)), Mod(k, "name", S(<<"x">>)), Mod(k, "gt", I(1)),
     Mod(k, "field", S(<<"name">>)), Mod(k, "bogus", I(1))}

KindConfigs ==
    Written(<<>>, KindMods("a"))
    \cup UNION {Written(<<Decl("a", ty)>>, KindMods("a")) :
                   ty \in TypeDecls \cup {Ty("bool"), None_}}

NextKinds ==
    Decorate(KindConfigs) \/ Call(Requests(validators)) \/ Iterate \/ Invoke \/ Return

SpecKinds == Init /\ [][NextKinds]_vars

(***************************************************************************)
(* Properties                                                              *)
(***************************************************************************)
\* what validation makes of the parameter declared as k, in this request
Verdict(k) == ValidateParam(k, validators[k], request)

Accepted(k) == Verdict(k).kind = "bound"

\* the parameter the loop is at
Current == validators[order[idx]]

AtParam == pc \in {"loop", "done"} /\ idx \in 1..Len(order)

\* the parameters the loop has gone through and bound
Passed == {order[j] : j \in 1..(idx - 1)}

\* a call that ended at a parameter, not in the handler
Stopped == pc = "done" /\ outcome.kind # "handler"

IsScalar(v) == v.param_type \in {Ty("int"), Ty("float"), Ty("str")}

\* C1: the handler is invoked iff every declared parameter is accepted;
\* otherwise the call ends in a 400 Response that names a rejected parameter
\* and its reason, and no exception leaves the decorator.
C1_AllOrNothing ==
    pc = "done" =>
        IF \A k \in DOMAIN validators : Accepted(k)
        THEN outcome.kind = "handler"
        ELSE /\ outcome.kind = "400"
             /\ \E k \in DOMAIN validators :
                   /\ ~Accepted(k)
                   /\ outcome.name = validators[k].param_name
                   /\ outcome.msg = Verdict(k).msg

\* the values the claim C2 says each kind accepts
ClaimedToAccept(param_type, raw) ==
    CASE param_type = Ty("int") -> IsNumber(raw) \/ (IsText(raw) /\ AllDigits(raw.s))
      [] param_type = Ty("float") -> IsNumber(raw) \/ (IsText(raw) /\ IsFloatLiteral(raw.s))
      [] param_type = Ty("str") -> IsText(raw)
      [] OTHER -> \E i \in 1..Len(param_type.items) : PyEq(param_type.items[i], raw)

ClaimedResult(param_type, raw, val) ==
    CASE param_type = Ty("int") -> val.t = "int"
      [] param_type = Ty("float") -> val.t = "float"
      [] param_type = Ty("str") -> IsText(val) /\ val.s = raw.s
      [] OTHER -> val = raw

\* C2: check_type accepts exactly the values of the declared kind (integer
\* literals, float literals, text, members of the collection) and returns
\* them coerced; every value it rejects ends the call in a 400 Response.
C2_CheckTypeByKind ==
    (AtParam /\ ~Current.many /\ Truthy(FindParam(Current, request).param)
       /\ (IsScalar(Current) \/ Current.param_type.t \in TUPLE_TYPES)) =>
        LET raw == FindParam(Current, request).param
            r == check_type(Current, raw)
        IN /\ r.ok <=> ClaimedToAccept(Current.param_type, raw)
           /\ r.ok => ClaimedResult(Current.param_type, raw, r.val)
           /\ (~r.ok /\ pc = "done") => outcome.kind = "400"

\* the number a bound applies to: the value, or the length of text
Measured(v, val) == IF v.param_type = Ty("str") THEN PyLen(val) ELSE val

Declared(v, b) == BoundOf(v, b) # None_

\* the sense of each bound, as the claims state it
Satisfies(x, b, bound) ==
    CASE b = "lt" -> x.n < bound.n
      [] b = "lte" -> x.n <= bound.n
      [] b = "gt" -> x.n > bound.n
      [] b = "gte" -> x.n >= bound.n
      [] OTHER -> x.n = bound.n

\* the parameters bound from a value of the request, not from the default
BoundFromRequest ==
    {k \in DOMAIN kwargs : Truthy(FindParam(validators[k], request).param)}

\* C3: a present value of a number or text parameter is accepted only if it
\* (or its length) satisfies every declared lt, lte, gt, gte.
C3_BoundsEnforced ==
    pc \in {"loop", "done"} =>
        \A k \in BoundFromRequest :
            (IsScalar(validators[k]) /\ ~validators[k].many) =>
                \A b \in {"lt", "lte", "gt", "gte"} :
                    Declared(validators[k], b) =>
                        Satisfies(Measured(validators[k], kwargs[k]), b,
                                  BoundOf(validators[k], b))

(***************************************************************************)
(* What the configuration, as written, declares for the parameter k        *)
(***************************************************************************)
EntriesOf(k, part) ==
    {config[i] : i \in {j \in 1..Len(config) :
                          /\ config[j].parts[1] = k
                          /\ Len(config[j].parts) > 1
                          /\ config[j].parts[Len(config[j].parts)] = part}}

Names(v, m) ==
    PyEq(v, S(<<m>>)) \/ (v.t \in TUPLE_TYPES /\ PyIn(S(<<m>>), v))

\* the methods declared for k with k__method
DeclaredMethods(k) ==
    {m \in {"GET", "POST"} : \E e \in EntriesOf(k, "method") : Names(e.v, m)}

\* the sources the claims allow for k in this request
AllowedSources(k) ==
    IF DeclaredMethods(k) # {} THEN DeclaredMethods(k)
    ELSE IF request.method \in {"POST", "PUT"} THEN {"POST"} ELSE {"GET"}

\* the key k is looked up under
RequestName(k) ==
    IF EntriesOf(k, "name") = {} THEN S(<<k>>)
    ELSE (CHOOSE e \in EntriesOf(k, "name") : TRUE).v

Source(src) == IF src = "POST" THEN request.DATA ELSE request.GET

Sent(k, src) == DictGet(Source(src), RequestName(k))

\* k is absent: no allowed source holds a value for it that is not falsy
Absent(k) == \A src \in AllowedSources(k) : ~Truthy(Sent(k, src))

\* the default declared for k, None if there is none
DeclaredDefault(k) ==
    IF EntriesOf(k, "default") = {} THEN None_
    ELSE (CHOOSE e \in EntriesOf(k, "default") : TRUE).v

\* what the log holds about k
LogOf(k, evs) == SelectSeq(log, LAMBDA e : e.arg = k /\ e.ev \in evs)

Whats(events) == [i \in 1..Len(events) |-> events[i].what]

CheckEvents == {"check_type", "check_value", "query", "compare"}

\* C4: an absent parameter (no allowed source holds a truthy value for it)
\* ends the call with the 400 'Param is missing' when it is not optional; when
\* it is optional it is bound to its default (None if none was declared),
\* neither check_type nor check_value runs for it, and the loop goes on.
C4_AbsenceHandling ==
    pc \in {"loop", "done"} =>
        /\ \A k \in Passed :
              Absent(k) => /\ validators[k].optional
                           /\ kwargs[k] = DeclaredDefault(k)
                           /\ LogOf(k, CheckEvents) = <<>>
        /\ (Stopped /\ Absent(order[idx])) =>
              /\ ~Current.optional
              /\ outcome.kind = "400"
              /\ outcome.name = RequestName(order[idx])
              /\ outcome.msg = Msg("", "Param is missing", None_)
              /\ LogOf(order[idx], CheckEvents) = <<>>
        /\ (Stopped /\ outcome.msg = Msg("", "Param is missing", None_)) =>
              Absent(order[idx])

\* C4 happens: an optional parameter with a declared default was absent, was
\* bound to the default, and the parameter after it was validated and rejected
C4_Witness ==
    /\ Stopped
    /\ \E k \in Passed : /\ Absent(k)
                         /\ DeclaredDefault(k) # None_
                         /\ kwargs[k] = DeclaredDefault(k)
                         /\ \E src \in {"GET", "POST"} :
                               Sent(k, src) \notin {None_} /\ ~Truthy(Sent(k, src))

\* the sources the claim C5 has read for k, in order
ClaimedReads(k) ==
    IF "POST" \in AllowedSources(k)
    THEN IF "GET" \in AllowedSources(k) /\ ~Truthy(Sent(k, "POST"))
         THEN <<"POST", "GET">> ELSE <<"POST">>
    ELSE <<"GET">>

\* the value the claim C5 has validated for k
ClaimedParam(k) == Sent(k, ClaimedReads(k)[Len(ClaimedReads(k))])

\* the parameters a pass of the loop has dealt with
Visited == Passed \cup (IF Stopped THEN {order[idx]} ELSE {})

\* C5: a parameter is looked up, under its request name, only in the allowed
\* sources: those declared with method, else request.DATA for POST and PUT
\* and request.GET for any other method; request.DATA first, request.GET only
\* when request.DATA holds no value; a value in another source is not seen.
C5_SourceSelection ==
    pc \in {"loop", "done"} =>
        \A k \in Visited :
            /\ Whats(LogOf(k, {"lookup"})) = ClaimedReads(k)
            /\ Truthy(ClaimedParam(k)) <=> ~Absent(k)
            /\ (k \in Passed /\ ~Absent(k) /\ ~validators[k].many
                  /\ validators[k].param_type.t \in TUPLE_TYPES) =>
                  kwargs[k] = ClaimedParam(k)
            /\ (k \notin Passed /\ ~validators[k].optional) =>
                  (Absent(k) <=> outcome.msg = Msg("", "Param is missing", None_))

\* C5 happens: a POST request carries the value only in request.DATA, the
\* parameter is declared method='GET', and the call ends 'Param is missing'
C5_Witness ==
    /\ Stopped
    /\ request.method = "POST"
    /\ DeclaredMethods(order[idx]) = {"GET"}
    /\ Truthy(Sent(order[idx], "POST"))
    /\ outcome.msg = Msg("", "Param is missing", None_)

\* the raw elements the claim C6 names for a many parameter
ClaimedElements(k) ==
    IF ClaimedReads(k)[Len(ClaimedReads(k))] = "GET"
    THEN LET tokens == SplitOn(PyStr(ClaimedParam(k)).val.s, ",")
         IN [i \in 1..Len(tokens) |-> S(tokens[i])]
    ELSE IF ClaimedParam(k).t = "list" THEN ClaimedParam(k).items
         ELSE <<ClaimedParam(k)>>

\* C6: a many parameter taken from request.GET is split on commas, one taken
\* from request.DATA is the list it is or a one-element sequence; it is
\* accepted only if every element passes check_type and satisfies every
\* declared bound, and it is bound to the coerced elements in their order.
C6_Many ==
    pc \in {"loop", "done"} =>
        \A k \in BoundFromRequest :
            validators[k].many =>
                LET els == ClaimedElements(k)
                IN /\ kwargs[k].t = "list"
                   /\ Len(kwargs[k].items) = Len(els)
                   /\ \A i \in 1..Len(els) :
                         /\ check_type(validators[k], els[i]).ok
                         /\ kwargs[k].items[i] = check_type(validators[k], els[i]).val
                         /\ IsScalar(validators[k]) =>
                               \A b \in NUM_PARTS :
                                   Declared(validators[k], b) =>
                                       Satisfies(Measured(validators[k], kwargs[k].items[i]),
                                                 b, BoundOf(validators[k], b))

\* the type declarations of the configuration
Declarations == {config[i] : i \in {j \in 1..Len(config) : Len(config[j].parts) = 1}}

\* the values the claim C7 names as type declarations
ClaimedType(v) ==
    \/ v \in {Ty("int"), Ty("float"), Ty("str"), Ty("bool"), Ty("model")}
    \/ v.t \in {"tuple", "set", "frozenset", "list"}

Decorated == pc # "start"

\* C7: a keyword without modifier is accepted, and sets the parameter's
\* kind, exactly when its value is int, float, str, bool, a model class or a
\* tuple, set, frozenset or list; any other value makes params raise.
C7_TypeDeclarations ==
    Decorated =>
        /\ (\E e \in Declarations : ~ClaimedType(e.v)) => pc = "config_error"
        /\ (\A e \in Declarations : ClaimedType(e.v)) => cfg_error # "Invalid type"
        /\ pc # "config_error" =>
              \A e \in Declarations : validators[e.parts[1]].param_type = e.v

\* C8: in every set of validators params builds, a parameter configured
\* with a default is optional.
C8_DefaultForcesOptional ==
    (Decorated /\ pc # "config_error") =>
        \A k \in DOMAIN validators :
            EntriesOf(k, "default") # {} => validators[k].optional

\* the place of k's first keyword in the configuration as written
FirstWritten(k) ==
    CHOOSE i \in 1..Len(config) :
        /\ config[i].parts[1] = k
        /\ \A j \in 1..(i - 1) : config[j].parts[1] # k

WrittenBefore(j, k) == FirstWritten(j) < FirstWritten(k)

\* C9 as stated: parameters are validated in configuration order; the call
\* stops at the first parameter, in that order, that is rejected, the 400
\* Response names it, and no parameter configured after it is looked up,
\* coerced, queried for or bound-checked.
C9_ConfigurationOrder ==
    Stopped =>
        /\ \A k \in DOMAIN validators : WrittenBefore(k, order[idx]) => Accepted(k)
        /\ ~Accepted(order[idx])
        /\ outcome.kind = "400" => outcome.name = Current.param_name
        /\ \A i \in 1..Len(log) : ~WrittenBefore(order[idx], log[i].arg)

\* C9: parameters are validated in the iteration order of validators.items();
\* the call stops at the first parameter, in that order, that is rejected, a
\* 400 Response names it and carries its message, and no parameter after it
\* in that order is looked up, coerced, queried for or bound-checked.
C9_FirstFailureWins ==
    /\ outcome.kind \in {"400", "raised"} => Stopped
    /\ Stopped =>
          /\ idx \in 1..Len(order)
          /\ \A j \in 1..(idx - 1) : Accepted(order[j])
          /\ ~Accepted(order[idx])
          /\ outcome.kind = "400" =>
                /\ outcome.name = Current.param_name
                /\ outcome.msg = Verdict(order[idx]).msg
          /\ \A i \in 1..Len(log) : \E j \in 1..idx : log[i].arg = order[j]

\* C9 happens: two parameters would both be rejected, the one configured
\* last comes first in validators.items(), and the 400 Response is about it
C9_Witness ==
    /\ Stopped
    /\ outcome.kind = "400"
    /\ Len(order) = 2
    /\ idx = 1
    /\ ~Accepted(order[2])
    /\ WrittenBefore(order[2], order[1])

\* the bounds other than eq that check_value reads, in its order
TruthyBounds(v) == SelectSeq(BoundOrder, LAMBDA b : Truthy(BoundOf(v, b)))

OtherBoundsHold(v, m) ==
    \A i \in 1..Len(TruthyBounds(v)) :
        Satisfies(m, TruthyBounds(v)[i], BoundOf(v, TruthyBounds(v)[i]))

\* values check_value may be given for a parameter of v's type
EqValues(v) ==
    IF v.param_type = Ty("str")
    THEN {S(Chars(n, "a")) : n \in 0..(MaxNum + 1)}
    ELSE {I(n) : n \in 0..(MaxNum + 1)} \cup {F(1)}

\* the single parameters with eq declared whose value passed check_type
EqChecked ==
    {k \in Visited :
        /\ IsScalar(validators[k])
        /\ ~validators[k].many
        /\ Declared(validators[k], "eq")
        /\ Truthy(FindParam(validators[k], request).param)
        /\ check_type(validators[k], FindParam(validators[k], request).param).ok}

\* the coerced value of such a parameter
CoercedAt(k) == check_type(validators[k], FindParam(validators[k], request).param).val

\* C10 as stated: whenever eq is declared, the value (or length) is accepted
\* iff it equals eq, and none of lt, lte, gt, gte is evaluated.
C10_EqShortCircuits ==
    pc \in {"loop", "done"} =>
        \A k \in EqChecked :
            /\ k \in Passed <=>
                  Satisfies(Measured(validators[k], CoercedAt(k)), "eq", validators[k].eq)
            /\ \A i \in 1..Len(LogOf(k, {"compare"})) :
                  LogOf(k, {"compare"})[i].what = "eq"

\* what check_value does with the value x for the validator v, eq declared
EqOutcome(v, x) ==
    LET m == Measured(v, x)
        r == check_value(v, x)
    IN IF ~Truthy(m) THEN r.ok /\ r.cmps = <<>>
       ELSE IF ~Truthy(v.eq)
            THEN /\ r.ok <=> OtherBoundsHold(v, m)
                 /\ \A i \in 1..Len(r.cmps) : r.cmps[i] # "eq"
            ELSE IF ~Satisfies(m, "eq", v.eq)
                 THEN ~r.ok /\ r.cmps = <<"eq">>
                 ELSE /\ r.ok <=> OtherBoundsHold(v, m)
                      /\ r.ok => r.cmps = <<"eq">> \o TruthyBounds(v)

\* C10: with a non-zero eq and a non-zero value (or length), a mismatch
\* fails at once with none of lt, lte, gt, gte evaluated, and a value equal to
\* eq is then compared with the non-zero lt, lte, gt, gte, in that order, and
\* accepted iff it satisfies them all; an eq of 0 is not compared, and a value
\* (or length) of 0 is accepted with nothing compared.
C10_EqThenOtherBounds ==
    /\ pc \in {"ready", "loop", "done"} =>
          \A k \in DOMAIN validators :
              (IsScalar(validators[k]) /\ Declared(validators[k], "eq")) =>
                  \A x \in EqValues(validators[k]) : EqOutcome(validators[k], x)
    /\ pc \in {"loop", "done"} =>
          \A k \in EqChecked :
              /\ k \in Passed <=> check_value(validators[k], CoercedAt(k)).ok
              /\ Whats(LogOf(k, {"compare"})) = check_value(validators[k], CoercedAt(k)).cmps

\* C10 happens: the value equals the declared eq, another declared bound was
\* compared with it, and the call ended in the 400 Response of that bound
C10_Witness ==
    /\ Stopped
    /\ outcome.kind = "400"
    /\ order[idx] \in EqChecked
    /\ Truthy(Current.eq)
    /\ Satisfies(Measured(Current, CoercedAt(order[idx])), "eq", Current.eq)
    /\ Len(LogOf(order[idx], {"compare"})) > 1

\* the validator has one of the kinds check_type knows
HasKind(v) ==
    \/ IsScalar(v)
    \/ v.param_type.t \in TUPLE_TYPES
    \/ HasDefaultManager(v.param_type)

\* the message of check_type's branch for a param_type of no kind
InvalidParamType == "object has no attribute '____name__'"

\* C11: every configuration params accepts gives each validator exactly one
\* kind (scalar, collection of options, or model), a configuration with
\* modifiers only included; so no call reaches check_type's 'invalid param
\* type' branch and no fault of the configuration ends a request.
C11_ConfigErrorsAtDecoration ==
    /\ pc \in {"ready", "loop", "done"} =>
          \A k \in DOMAIN validators : HasKind(validators[k])
    /\ pc = "done" => outcome.msg.text # InvalidParamType

\* the kwargs and the outcome of the call are those the validators make of
\* this request alone
RequestOnly ==
    pc \in {"loop", "done"} =>
        /\ DOMAIN kwargs = Passed
        /\ \A k \in Passed : kwargs[k] = Verdict(k).value
        /\ pc = "loop" => outcome = NoOutcome
        /\ outcome.kind = "handler" =>
              /\ idx = Len(order) + 1
              /\ outcome.kwargs = kwargs

\* a step of a call changes nothing of what params built
SpecSetKept ==
    pc # "start" =>
        /\ validators' = validators
        /\ order' = order
        /\ cfg_error' = cfg_error

\* a call starts with no kwargs of an earlier call, and leaves none
NothingCarried ==
    /\ (pc = "ready" /\ pc' = "loop") => (kwargs' = <<>> /\ log' = <<>> /\ idx' = 1)
    /\ (pc = "done" /\ pc' = "ready") => (kwargs' = <<>> /\ outcome' = NoOutcome)

\* C12: at request time no call, accepted or rejected, changes a field of a
\* validator or the set of declared keys; no call sees kwargs of an earlier
\* call; and the kwargs bound and the outcome are those the validators make
\* of the current request alone.
C12_ReadOnlyAtRequestTime ==
    /\ []RequestOnly
    /\ [][SpecSetKept /\ NothingCarried]_vars

\* C12 happens: a call with two parameters bound both from its request and
\* reached the handler
C12_Witness ==
    /\ pc = "done"
    /\ outcome.kind = "handler"
    /\ Len(order) = 2
    /\ \A k \in DOMAIN kwargs : k \in BoundFromRequest

\* raw values check_type may be given
CoercionInputs == RawValues \cup PostedValues \cup Nums \cup Objects

\* the coerced form of x, submitted again, is accepted with an equal value
Resubmitted(v, x) ==
    check_type(v, x).ok =>
        /\ check_type(v, check_type(v, x).val).ok
        /\ PyEq(check_type(v, check_type(v, x).val).val, check_type(v, x).val)

\* the coerced form of x, submitted again, is rejected
NotAgain(v, x) ==
    check_type(v, x).ok => ~check_type(v, check_type(v, x).val).ok

\* the single parameters of the call bound from a value of the request
BoundSingle == {k \in BoundFromRequest : k \in Passed /\ ~validators[k].many}

\* C13 as stated: for every kind, the model lookup included, a value that
\* check_type accepts and coerces to c is accepted again as c, with a result
\* equal to c.
C13_IdempotentCoercion ==
    pc \in {"loop", "done"} =>
        /\ \A k \in DOMAIN validators : \A x \in CoercionInputs :
              Resubmitted(validators[k], x)
        /\ \A k \in BoundSingle : Resubmitted(validators[k], kwargs[k])

\* C13: for an int, float or str parameter and for a collection of options,
\* a value that check_type accepts and coerces to c is accepted again as c,
\* with a result equal to c; for a model parameter c is the instance found,
\* and check_type rejects it when it is submitted again.
C13_IdempotentExceptLookup ==
    pc \in {"loop", "done"} =>
        /\ \A k \in DOMAIN validators : \A x \in CoercionInputs :
              IF HasDefaultManager(validators[k].param_type)
              THEN NotAgain(validators[k], x)
              ELSE Resubmitted(validators[k], x)
        /\ \A k \in BoundSingle :
              /\ kwargs[k] = check_type(validators[k],
                                        FindParam(validators[k], request).param).val
              /\ IF HasDefaultManager(validators[k].param_type)
                 THEN ~check_type(validators[k], kwargs[k]).ok
                 ELSE /\ check_type(validators[k], kwargs[k]).ok
                      /\ PyEq(check_type(validators[k], kwargs[k]).val, kwargs[k])

\* C13 happens: a model parameter was looked up and bound to the instance,
\* which check_type would not accept as a value again
C13_Witness ==
    /\ pc = "done"
    /\ outcome.kind = "handler"
    /\ \E k \in BoundSingle :
          /\ HasDefaultManager(validators[k].param_type)
          /\ kwargs[k] \in Objects
          /\ ~check_type(validators[k], kwargs[k]).ok
====
